---------------------------- MODULE Spec2Model ----------------------------
(***************************************************************************)
(* A model of the Mari-Fit generation service (services/geminiService.ts)  *)
(* and of its start screen (components/StartScreen.tsx with                *)
(* components/BodyAdjustmentPanel.tsx).                                    *)
(*                                                                         *)
(* Text is modelled as a sequence of one-character strings, so that        *)
(* splitting, matching, trimming, concatenation and "contains" are what    *)
(* the code computes.  An optional value (a field that may be absent, a    *)
(* value that may be undefined or null) is a set with at most one element. *)
(*                                                                         *)
(* Four specifications share the module:                                   *)
(*   SpecResponse  handleApiResponse applied to a response;                *)
(*   SpecDataUrl   dataUrlToParts and the re-encoding of its result;       *)
(*   SpecService   module load and the four exported operations;           *)
(*   SpecScreen    the start screen's handlers and the calls it issues.    *)
(***************************************************************************)
EXTENDS Integers, Sequences, FiniteSets

VARIABLES
    response,           \* SpecResponse: the GenerateContentResponse handed in
    result,             \* SpecResponse: what handleApiResponse returned or threw
    dataUrl,            \* SpecDataUrl: the string handed to dataUrlToParts
    decoded,            \* SpecDataUrl: what dataUrlToParts returned or threw
    reencoded,          \* SpecDataUrl: the data URL rebuilt from decoded
    API_KEY,            \* SpecService: import.meta.env.VITE_API_KEY
    ai,                 \* SpecService: the module's client, or null
    call,               \* SpecService: the operation in progress and its arguments
    pc,                 \* SpecService: the position of the operation in progress
    apiResponse,        \* SpecService: what generateContent resolved with
    genCalls,           \* SpecService: generateContent calls issued by the operation
    outcome,            \* SpecService: how the operation's promise settled
    prior,              \* SpecService: how many operations settled before, and the last
    userImageUrl,       \* SpecScreen: useState (StartScreen.tsx:20)
    generatedModelUrl,  \* SpecScreen: useState (StartScreen.tsx:21)
    isGenerating,       \* SpecScreen: useState (StartScreen.tsx:22)
    isAdjusting,        \* SpecScreen: useState (StartScreen.tsx:23)
    error,              \* SpecScreen: useState (StartScreen.tsx:24)
    readers,            \* SpecScreen: FileReader.readAsDataURL reads not yet loaded
    calls,              \* SpecScreen: the service calls issued, in order of issue
    issuedAt,           \* SpecScreen: per call, what the screen showed at its issue
    userActions,        \* SpecScreen: photo selections and adjustment clicks so far
    awaitingAction,     \* SpecScreen: a call rejected and no such action came since
    lastEvent           \* SpecScreen: the handler that ran last and what it did

responseVars == <<response, result>>
dataUrlVars  == <<dataUrl, decoded, reencoded>>
serviceVars  == <<API_KEY, ai, call, pc, apiResponse, genCalls, outcome, prior>>
screenVars   == <<userImageUrl, generatedModelUrl, isGenerating, isAdjusting,
                  error, readers, calls, issuedAt, userActions, awaitingAction,
                  lastEvent>>
vars == <<responseVars, dataUrlVars, serviceVars, screenVars>>

---------------------------------------------------------------------------
(* Bounds of the model.                                                    *)

\* Most candidates in a response.
MaxCandidates == 2
\* Longest arbitrary string handed to dataUrlToParts.
MaxJunkLen == 3
\* Most operations invoked on the service in one run.
MaxServiceCalls == 3
\* Most service calls the start screen issues in one run.
MaxScreenCalls == 4
\* Most photo selections whose read has not loaded yet.
MaxReaders == 2
\* Most photo selections and adjustment clicks in one run.
MaxUserActions == 4

---------------------------------------------------------------------------
(* Optional values.                                                        *)

Undefined == {}
Some(x) == {x}
IsDefined(o) == o # {}
Get(o) == CHOOSE x \in o : TRUE

---------------------------------------------------------------------------
(* Literal text of the source, character by character.                     *)

\* the literal "data:" of the result template (geminiService.ts:72)
DataPrefix ==
    <<"d","a","t","a",":">>

\* the literal ";base64," of the result template (geminiService.ts:72)
Base64Marker ==
    <<";","b","a","s","e","6","4",",">>

\* geminiService.ts:31
NotInitializedMessage ==
    <<"G","e","m","i","n","i"," ","A","P","I"," ","i","s"," ","n","o","t",
      " ","i","n","i","t","i","a","l","i","z","e","d","."," ","M","a","k",
      "e"," ","s","u","r","e"," ","t","h","e"," ","A","P","I","_","K","E",
      "Y"," ","e","n","v","i","r","o","n","m","e","n","t"," ","v","a","r",
      "i","a","b","l","e"," ","i","s"," ","s","e","t",".">>

\* geminiService.ts:49
InvalidDataUrlMessage ==
    <<"I","n","v","a","l","i","d"," ","d","a","t","a"," ","U","R","L">>

\* geminiService.ts:51
NoMimeTypeMessage ==
    <<"C","o","u","l","d"," ","n","o","t"," ","p","a","r","s","e"," ","M",
      "I","M","E"," ","t","y","p","e"," ","f","r","o","m"," ","d","a","t",
      "a"," ","U","R","L">>

\* geminiService.ts:63, up to ${blockReason}
BlockedPrefix ==
    <<"R","e","q","u","e","s","t"," ","w","a","s"," ","b","l","o","c","k",
      "e","d","."," ","R","e","a","s","o","n",":"," ">>

\* geminiService.ts:63, between ${blockReason} and the reason message
BlockedSeparator ==
    <<"."," ">>

\* geminiService.ts:78, up to ${finishReason}
InterruptedPrefix ==
    <<"I","m","a","g","e"," ","g","e","n","e","r","a","t","i","o","n"," ",
      "s","t","o","p","p","e","d"," ","u","n","e","x","p","e","c","t","e",
      "d","l","y","."," ","R","e","a","s","o","n",":"," ">>

\* geminiService.ts:78, after ${finishReason}
InterruptedSuffix ==
    <<"."," ","T","h","i","s"," ","o","f","t","e","n"," ","r","e","l","a",
      "t","e","s"," ","t","o"," ","s","a","f","e","t","y"," ","s","e","t",
      "t","i","n","g","s",".">>

\* geminiService.ts:82
NoImagePrefix ==
    <<"T","h","e"," ","A","I"," ","m","o","d","e","l"," ","d","i","d"," ",
      "n","o","t"," ","r","e","t","u","r","n"," ","a","n"," ","i","m","a",
      "g","e","."," ">>

\* geminiService.ts:82, up to ${textFeedback}
TextFeedbackPrefix ==
    <<"T","h","e"," ","m","o","d","e","l"," ","r","e","s","p","o","n","d",
      "e","d"," ","w","i","t","h"," ","t","e","x","t",":"," ","\"">>

\* geminiService.ts:82, after ${textFeedback}
TextFeedbackSuffix ==
    <<"\"">>

\* geminiService.ts:82
NoTextFeedbackMessage ==
    <<"T","h","i","s"," ","c","a","n"," ","h","a","p","p","e","n"," ","d",
      "u","e"," ","t","o"," ","s","a","f","e","t","y"," ","f","i","l","t",
      "e","r","s"," ","o","r"," ","i","f"," ","t","h","e"," ","r","e","q",
      "u","e","s","t"," ","i","s"," ","t","o","o"," ","c","o","m","p","l",
      "e","x","."," ","P","l","e","a","s","e"," ","t","r","y"," ","a"," ",
      "d","i","f","f","e","r","e","n","t"," ","i","m","a","g","e",".">>

\* what a template literal renders for an absent value
UndefinedText ==
    <<"u","n","d","e","f","i","n","e","d">>

\* geminiService.ts:77
STOP ==
    <<"S","T","O","P">>

\* a finish reason / block reason of the API other than STOP
SAFETY ==
    <<"S","A","F","E","T","Y">>

\* another block reason of the API
OtherReason ==
    <<"O","T","H","E","R">>

\* a MIME type
ImagePng ==
    <<"i","m","a","g","e","/","p","n","g">>

\* a MIME type
ImageJpeg ==
    <<"i","m","a","g","e","/","j","p","e","g">>

\* a MIME type
TextPlain ==
    <<"t","e","x","t","/","p","l","a","i","n">>

\* a header parameter between the MIME type and ;base64
CharsetParam ==
    <<";","c","h","a","r","s","e","t","=","u","t","f","-","8">>

\* base64 of ABC
PayloadA ==
    <<"Q","U","J","D">>

\* base64 of A
PayloadB ==
    <<"Q","Q","=","=">>

---------------------------------------------------------------------------
(* Text operations of JavaScript, as the code uses them.                   *)

\* All strings over alphabet A of length at most n.
StringsUpTo(A, n) == UNION {[1..k -> A] : k \in 0..n}

StartsWith(s, p) == Len(p) <= Len(s) /\ SubSeq(s, 1, Len(p)) = p

\* String.prototype.includes: x occurs in s as a contiguous substring.
Contains(s, x) ==
    \E i \in 0..(Len(s) - Len(x)) : SubSeq(s, i + 1, i + Len(x)) = x

\* What a template literal renders for a value: its text, or "undefined".
TemplateText(o) == IF IsDefined(o) THEN Get(o) ELSE UndefinedText

\* Truthiness of an optional string: defined and not empty.
Truthy(o) == IsDefined(o) /\ Get(o) # <<>>

\* White space and line terminators String.prototype.trim removes.
WhiteSpace == {" ", "\t", "\n", "\r"}

\* The characters the regular expression's "." does not match.
LineTerminators == {"\n", "\r"}

\* String.prototype.trim.
Trim(s) ==
    LET keep == {i \in 1..Len(s) : s[i] \notin WhiteSpace}
    IN  IF keep = {} THEN <<>>
        ELSE LET first == CHOOSE i \in keep : \A j \in keep : i <= j
                 last  == CHOOSE i \in keep : \A j \in keep : j <= i
             IN  SubSeq(s, first, last)

---------------------------------------------------------------------------
(* The response of the generation API, as handleApiResponse reads it.      *)

\* A settled computation: a value returned, or an Error thrown with a message.
Return(v) == [kind |-> "returned", text |-> v]
Throw(m)  == [kind |-> "thrown", text |-> m]
NotRun    == [kind |-> "none", text |-> <<>>]

TextPart(t)   == [inlineData |-> Undefined, text |-> Some(t)]
ImagePart(m, d) ==
    [inlineData |-> Some([mimeType |-> m, data |-> d]), text |-> Undefined]

PngA  == ImagePart(Some(ImagePng), Some(PayloadA))
JpegB == ImagePart(Some(ImageJpeg), Some(PayloadB))
\* An inline-data part whose optional mimeType is absent.
BareA == ImagePart(Undefined, Some(PayloadA))
Words == TextPart(<<"o", "k">>)

\* The parts lists a candidate's content is drawn from.
PartsChoices ==
    {<<>>, <<Words>>, <<PngA>>, <<Words, JpegB>>, <<PngA, JpegB>>, <<BareA>>}

\* candidate.content: absent, without parts, or with a parts list.
ContentChoices ==
    {Undefined, Some([parts |-> Undefined])}
        \cup {Some([parts |-> Some(ps)]) : ps \in PartsChoices}

FinishReasonChoices == {Undefined, Some(STOP), Some(SAFETY)}

CandidateChoices ==
    [content : ContentChoices, finishReason : FinishReasonChoices]

\* response.promptFeedback: absent, without a block reason, or blocked.
PromptFeedbackChoices ==
    {Undefined,
     Some([blockReason |-> Undefined, blockReasonMessage |-> Undefined]),
     Some([blockReason |-> Some(SAFETY), blockReasonMessage |-> Undefined]),
     Some([blockReason |-> Some(OtherReason),
           blockReasonMessage |-> Some(<<"n", "o">>)])}

\* response.text: absent, empty, white space only, plain, or padded.
TextChoices ==
    {Undefined, Some(<<>>), Some(<<" ">>), Some(<<"h", "i">>),
     Some(<<" ", "h", "i", "\n">>)}

Responses ==
    [promptFeedback : PromptFeedbackChoices,
     candidates : {Undefined}
        \cup {Some(cs) : cs \in StringsUpTo(CandidateChoices, MaxCandidates)},
     text : TextChoices]

\* Mutant of FindImagePart: findLast instead of find.
FindImagePart_Last(candidate) ==
    IF ~IsDefined(candidate.content) THEN Undefined
    ELSE IF ~IsDefined(Get(candidate.content).parts) THEN Undefined
    ELSE LET parts == Get(Get(candidate.content).parts)
             hits  == {i \in 1..Len(parts) : IsDefined(parts[i].inlineData)}
         IN  IF hits = {} THEN Undefined
             ELSE Some(parts[CHOOSE i \in hits : \A j \in hits : j <= i])

\* candidate.content?.parts?.find(part => part.inlineData)
FindImagePart(candidate) ==
    IF ~IsDefined(candidate.content) THEN Undefined
    ELSE IF ~IsDefined(Get(candidate.content).parts) THEN Undefined
    ELSE LET parts == Get(Get(candidate.content).parts)
             hits  == {i \in 1..Len(parts) : IsDefined(parts[i].inlineData)}
         IN  IF hits = {} THEN Undefined
             ELSE Some(parts[CHOOSE i \in hits : \A j \in hits : i <= j])

\* response.candidates ?? []
CandidatesOf(r) == IF IsDefined(r.candidates) THEN Get(r.candidates) ELSE <<>>

\* The loop over the candidates: the first candidate with an image part.
FirstImageCandidate(r) ==
    LET cs   == CandidatesOf(r)
        hits == {i \in 1..Len(cs) : IsDefined(FindImagePart(cs[i]))}
    IN  IF hits = {} THEN Undefined
        ELSE Some(cs[CHOOSE i \in hits : \A j \in hits : i <= j])

\* `data:${mimeType};base64,${data}`
ToDataUrl(mimeType, data) ==
    DataPrefix \o TemplateText(mimeType) \o Base64Marker \o TemplateText(data)

\* response.candidates?.[0]?.finishReason
FirstFinishReason(r) ==
    IF CandidatesOf(r) = <<>> THEN Undefined
    ELSE CandidatesOf(r)[1].finishReason

\* response.promptFeedback?.blockReason is truthy
IsBlocked(r) ==
    IsDefined(r.promptFeedback) /\ Truthy(Get(r.promptFeedback).blockReason)

BlockedMessage(r) ==
    LET fb == Get(r.promptFeedback)
    IN  BlockedPrefix \o Get(fb.blockReason) \o BlockedSeparator
            \o (IF Truthy(fb.blockReasonMessage)
                THEN Get(fb.blockReasonMessage) ELSE <<>>)

InterruptedMessage(finishReason) ==
    InterruptedPrefix \o finishReason \o InterruptedSuffix

\* Mutant of TextFeedback: the text is not trimmed.
TextFeedback_Untrimmed(r) == r.text

\* response.text?.trim()
TextFeedback(r) == IF IsDefined(r.text) THEN Some(Trim(Get(r.text))) ELSE Undefined

NoImageMessage(r) ==
    NoImagePrefix
        \o (IF Truthy(TextFeedback(r))
            THEN TextFeedbackPrefix \o Get(TextFeedback(r)) \o TextFeedbackSuffix
            ELSE NoTextFeedbackMessage)

\* Mutant of handleApiResponse: the candidates are scanned for an image
\* before the block reason is looked at.
handleApiResponse_ImageFirst(r) ==
    IF IsDefined(FirstImageCandidate(r))
    THEN LET inlineData ==
                 Get(Get(FindImagePart(Get(FirstImageCandidate(r)))).inlineData)
         IN  Return(ToDataUrl(inlineData.mimeType, inlineData.data))
    ELSE IF IsBlocked(r) THEN Throw(BlockedMessage(r))
    ELSE IF Truthy(FirstFinishReason(r)) /\ Get(FirstFinishReason(r)) # STOP
    THEN Throw(InterruptedMessage(Get(FirstFinishReason(r))))
    ELSE Throw(NoImageMessage(r))

handleApiResponse(r) ==
    IF IsBlocked(r) THEN Throw(BlockedMessage(r))
    ELSE IF IsDefined(FirstImageCandidate(r))
    THEN LET inlineData ==
                 Get(Get(FindImagePart(Get(FirstImageCandidate(r)))).inlineData)
         IN  Return(ToDataUrl(inlineData.mimeType, inlineData.data))
    ELSE IF Truthy(FirstFinishReason(r)) /\ Get(FirstFinishReason(r)) # STOP
    THEN Throw(InterruptedMessage(Get(FirstFinishReason(r))))
    ELSE Throw(NoImageMessage(r))

---------------------------------------------------------------------------
(* Data URLs: dataUrlToParts and the strings handed to it.                 *)

\* The k-th smallest element of a finite set of integers, k from 1.
KthSmallest(S, k) == CHOOSE x \in S : Cardinality({y \in S : y < x}) = k - 1

\* String.prototype.split(','): the pieces between the commas, in order.
SplitAtCommas(s) ==
    LET commas == {i \in 1..Len(s) : s[i] = ","}
        starts == {0} \cup commas
        ends   == commas \cup {Len(s) + 1}
    IN  [k \in 1..(Cardinality(commas) + 1) |->
            SubSeq(s, KthSmallest(starts, k) + 1, KthSmallest(ends, k) - 1)]

\* Mutant of MatchMime: the greedy /:(.*);/, whose group runs to the last ";".
MatchMime_Greedy(header) ==
    LET semis(i) == {j \in (i + 1)..Len(header) : header[j] = ";"}
        reach(i) == {j \in semis(i) :
                        \A k \in (i + 1)..(j - 1) : header[k] \notin LineTerminators}
        hits == {i \in 1..Len(header) : header[i] = ":" /\ reach(i) # {}}
    IN  IF hits = {} THEN Undefined
        ELSE LET i == CHOOSE h \in hits : \A g \in hits : h <= g
                 j == CHOOSE x \in reach(i) : \A y \in reach(i) : y <= x
             IN  Some(SubSeq(header, i + 1, j - 1))

\* header.match(/:(.*?);/): the leftmost ":" from which a ";" is reached over
\* characters "." matches; the group is the text up to the first such ";".
\* Undefined when there is no match, else the captured group.
MatchMime(header) ==
    LET semis(i) == {j \in (i + 1)..Len(header) : header[j] = ";"}
        firstSemi(i) == CHOOSE j \in semis(i) : \A k \in semis(i) : j <= k
        matches(i) ==
            /\ header[i] = ":"
            /\ semis(i) # {}
            /\ \A k \in (i + 1)..(firstSemi(i) - 1) :
                   header[k] \notin LineTerminators
        hits == {i \in 1..Len(header) : matches(i)}
    IN  IF hits = {} THEN Undefined
        ELSE LET i == CHOOSE h \in hits : \A g \in hits : h <= g
             IN  Some(SubSeq(header, i + 1, firstSemi(i) - 1))

\* What dataUrlToParts returns.
Parts(mimeType, data) ==
    [kind |-> "parts", text |-> <<>>, mimeType |-> mimeType, data |-> data]
Failed(message) ==
    [kind |-> "thrown", text |-> message, mimeType |-> <<>>, data |-> <<>>]
NotDecoded == [kind |-> "none", text |-> <<>>, mimeType |-> <<>>, data |-> <<>>]

\* Mutant of dataUrlToParts: arr.length <= 2 instead of arr.length < 2.
dataUrlToParts_OffByOne(s) ==
    LET arr == SplitAtCommas(s)
    IN  IF Len(arr) <= 2 THEN Failed(InvalidDataUrlMessage)
        ELSE LET mimeMatch == MatchMime(arr[1])
             IN  IF ~IsDefined(mimeMatch) \/ Get(mimeMatch) = <<>>
                 THEN Failed(NoMimeTypeMessage)
                 ELSE Parts(Get(mimeMatch), arr[2])

dataUrlToParts(s) ==
    LET arr == SplitAtCommas(s)
    IN  IF Len(arr) < 2 THEN Failed(InvalidDataUrlMessage)
        ELSE LET mimeMatch == MatchMime(arr[1])
             IN  IF ~IsDefined(mimeMatch) \/ Get(mimeMatch) = <<>>
                 THEN Failed(NoMimeTypeMessage)
                 ELSE Parts(Get(mimeMatch), arr[2])

\* The malformed-input errors: the two messages dataUrlToParts throws with.
MalformedMessages == {InvalidDataUrlMessage, NoMimeTypeMessage}

\* Data URLs as a browser or the service itself produces them.
MimeChoices == {ImagePng, ImageJpeg, TextPlain}
ParamChoices == {<<>>, CharsetParam}
PayloadChoices == {<<>>, PayloadA, PayloadB}
ValidDataUrls ==
    {DataPrefix \o m \o p \o Base64Marker \o d :
        m \in MimeChoices, p \in ParamChoices, d \in PayloadChoices}

\* Strings that come close to a data URL without being one.
NearDataUrls ==
    {DataPrefix \o Base64Marker \o PayloadA,
     DataPrefix \o ImagePng \o <<",">> \o PayloadA,
     ImagePng \o Base64Marker \o PayloadA,
     DataPrefix \o ImagePng \o <<";", "b", "a", "s", "e", "6", "4">>,
     DataPrefix \o ImagePng \o Base64Marker \o PayloadA \o <<",">> \o PayloadB,
     <<"h", "t", "t", "p", ":", "/", "/", "a", ";", "b", ",", "c">>}

\* Arbitrary short strings over the characters the parser looks for.
JunkAlphabet == {":", ";", ",", "x", "\n"}
JunkStrings == StringsUpTo(JunkAlphabet, MaxJunkLen)

DataUrlInputs == ValidDataUrls \cup NearDataUrls \cup JunkStrings

---------------------------------------------------------------------------
(* The values the variables of one specification keep in the others.       *)

NoPrior == [settled |-> 0, last |-> Undefined]

ResponseIdle == response = Undefined /\ result = NotRun
DataUrlIdle  == dataUrl = <<>> /\ decoded = NotDecoded /\ reencoded = Undefined
ServiceIdle  ==
    /\ API_KEY = Undefined /\ ai = Undefined /\ call = Undefined
    /\ pc = "unloaded" /\ apiResponse = Undefined /\ genCalls = 0
    /\ outcome = NotRun /\ prior = NoPrior
ScreenIdle ==
    /\ userImageUrl = Undefined /\ generatedModelUrl = Undefined
    /\ isGenerating = FALSE /\ isAdjusting = FALSE /\ error = Undefined
    /\ readers = <<>> /\ calls = <<>> /\ issuedAt = <<>> /\ userActions = 0
    /\ awaitingAction = FALSE
    /\ lastEvent = Undefined

---------------------------------------------------------------------------
(* SpecResponse: handleApiResponse applied to one response.                *)

InitResponse ==
    /\ response \in {Some(r) : r \in Responses}
    /\ result = NotRun
    /\ DataUrlIdle /\ ServiceIdle /\ ScreenIdle

HandleApiResponse ==
    /\ result = NotRun
    /\ result' = handleApiResponse(Get(response))
    /\ UNCHANGED <<response, dataUrlVars, serviceVars, screenVars>>

NextResponse == HandleApiResponse

SpecResponse == InitResponse /\ [][NextResponse]_vars

---------------------------------------------------------------------------
(* SpecDataUrl: a string decoded by dataUrlToParts and encoded again the   *)
(* way handleApiResponse builds its result.                                *)

InitDataUrl ==
    /\ dataUrl \in DataUrlInputs
    /\ decoded = NotDecoded
    /\ reencoded = Undefined
    /\ ResponseIdle /\ ServiceIdle /\ ScreenIdle

Decode ==
    /\ decoded = NotDecoded
    /\ decoded' = dataUrlToParts(dataUrl)
    /\ UNCHANGED <<dataUrl, reencoded, responseVars, serviceVars, screenVars>>

Reencode ==
    /\ decoded.kind = "parts"
    /\ reencoded = Undefined
    /\ reencoded' = Some(ToDataUrl(Some(decoded.mimeType), Some(decoded.data)))
    /\ UNCHANGED <<dataUrl, decoded, responseVars, serviceVars, screenVars>>

NextDataUrl == Decode \/ Reencode

SpecDataUrl == InitDataUrl /\ [][NextDataUrl]_vars

---------------------------------------------------------------------------
(* SpecService: the module's load and its four exported operations.  An    *)
(* operation runs to its first await in one step; a FileReader read and a  *)
(* generateContent call settle in a later step.  The module keeps nothing  *)
(* between operations but the client `ai`, so operations are taken one     *)
(* after another and `prior` remembers the one before.                     *)

\* VITE_API_KEY: absent, empty, or set.
ApiKeyChoices == {Undefined, Some(<<>>), Some(<<"k", "e", "y">>)}

\* new GoogleGenAI({ apiKey: API_KEY })
Client == Some("GoogleGenAI")

\* The image strings handed to the operations that take a data URL.
ServiceImageChoices ==
    {DataPrefix \o ImagePng \o Base64Marker \o PayloadA,
     DataPrefix \o TextPlain \o CharsetParam \o Base64Marker \o PayloadB,
     <<"h", "t", "t", "p", ":", "/", "/", "a", ";", "b", ",", "c">>,
     DataPrefix \o Base64Marker \o PayloadA,
     DataPrefix \o ImagePng \o <<";", "b", "a", "s", "e", "6", "4">>,
     <<>>}

\* What FileReader.readAsDataURL delivers for a file: a data URL.
FileReadChoices ==
    {DataPrefix \o ImageJpeg \o Base64Marker \o PayloadB,
     DataPrefix \o ImagePng \o Base64Marker \o <<>>}

DirectionChoices == {"more", "less"}

\* The responses generateContent resolves with.
ServiceResponses ==
    {[promptFeedback |-> Undefined, text |-> Undefined,
      candidates |-> Some(<<[content |-> Some([parts |-> Some(<<Words, JpegB>>)]),
                             finishReason |-> Some(STOP)]>>)],
     [promptFeedback |->
          Some([blockReason |-> Some(SAFETY), blockReasonMessage |-> Undefined]),
      text |-> Undefined, candidates |-> Undefined],
     [promptFeedback |-> Undefined, text |-> Undefined,
      candidates |-> Some(<<[content |-> Undefined,
                             finishReason |-> Some(SAFETY)]>>)],
     [promptFeedback |-> Undefined, text |-> Some(<<"h", "i">>),
      candidates |-> Some(<<[content |-> Some([parts |-> Some(<<Words>>)]),
                             finishReason |-> Some(STOP)]>>)]}

\* The message of the error a failed generateContent call rejects with.
ApiErrorMessage == <<"f", "e", "t", "c", "h", " ", "f", "a", "i", "l", "e", "d">>

\* reader.onerror rejects with the reader's error event, which is no Error.
ReaderRejection == [kind |-> "rejected", text |-> <<>>]

InitService ==
    /\ API_KEY \in ApiKeyChoices
    /\ ai = Undefined
    /\ call = Undefined
    /\ pc = "unloaded"
    /\ apiResponse = Undefined
    /\ genCalls = 0
    /\ outcome = NotRun
    /\ prior = NoPrior
    /\ ResponseIdle /\ DataUrlIdle /\ ScreenIdle

\* The module's top level.
ModuleLoad ==
    /\ pc = "unloaded"
    /\ ai' = IF Truthy(API_KEY) THEN Client ELSE Undefined
    /\ pc' = "idle"
    /\ UNCHANGED <<API_KEY, call, apiResponse, genCalls, outcome, prior>>
    /\ UNCHANGED <<responseVars, dataUrlVars, screenVars>>

getInitializedAi ==
    IF ~IsDefined(ai) THEN Throw(NotInitializedMessage) ELSE Return(<<>>)

dataUrlToPart(s) == dataUrlToParts(s)

\* Where an operation stands after its synchronous part.
Rejected(message) == [pc |-> "settled", outcome |-> Throw(message), genCalls |-> 0]
Reading    == [pc |-> "reading", outcome |-> NotRun, genCalls |-> 0]
Generating == [pc |-> "generating", outcome |-> NotRun, genCalls |-> 1]

\* Operations started so far.
Started == prior.settled + (IF pc = "settled" THEN 1 ELSE 0)

\* An exported operation is called: the one before, if any, is remembered,
\* and the new one runs to its first await, ending as `next` says.
Invoke(op, image, direction, next) ==
    /\ pc \in {"idle", "settled"}
    /\ Started < MaxServiceCalls
    /\ prior' = IF pc = "settled"
                THEN [settled |-> prior.settled + 1,
                      last |-> Some([call |-> Get(call), outcome |-> outcome,
                                     genCalls |-> genCalls])]
                ELSE prior
    /\ call' = Some([op |-> op, image |-> image, direction |-> direction])
    /\ apiResponse' = Undefined
    /\ pc' = next.pc
    /\ outcome' = next.outcome
    /\ genCalls' = next.genCalls
    /\ UNCHANGED <<API_KEY, ai>>
    /\ UNCHANGED <<responseVars, dataUrlVars, screenVars>>

generateModelImage ==
    Invoke("generateModelImage", Undefined, Undefined,
           IF getInitializedAi.kind = "thrown"
           THEN Rejected(getInitializedAi.text)
           ELSE Reading)

generateVirtualTryOnImage(modelImageUrl) ==
    Invoke("generateVirtualTryOnImage", Some(modelImageUrl), Undefined,
           IF getInitializedAi.kind = "thrown"
           THEN Rejected(getInitializedAi.text)
           ELSE IF dataUrlToPart(modelImageUrl).kind = "thrown"
           THEN Rejected(dataUrlToPart(modelImageUrl).text)
           ELSE Reading)

generatePoseVariation(baseImageUrl) ==
    Invoke("generatePoseVariation", Some(baseImageUrl), Undefined,
           IF getInitializedAi.kind = "thrown"
           THEN Rejected(getInitializedAi.text)
           ELSE IF dataUrlToPart(baseImageUrl).kind = "thrown"
           THEN Rejected(dataUrlToPart(baseImageUrl).text)
           ELSE Generating)

\* Mutant of adjustBodyShape: the image is converted before the client is
\* asked for.
adjustBodyShape_ConvertsFirst(baseImageUrl, direction) ==
    Invoke("adjustBodyShape", Some(baseImageUrl), Some(direction),
           IF dataUrlToPart(baseImageUrl).kind = "thrown"
           THEN Rejected(dataUrlToPart(baseImageUrl).text)
           ELSE IF getInitializedAi.kind = "thrown"
           THEN Rejected(getInitializedAi.text)
           ELSE Generating)

adjustBodyShape(baseImageUrl, direction) ==
    Invoke("adjustBodyShape", Some(baseImageUrl), Some(direction),
           IF getInitializedAi.kind = "thrown"
           THEN Rejected(getInitializedAi.text)
           ELSE IF dataUrlToPart(baseImageUrl).kind = "thrown"
           THEN Rejected(dataUrlToPart(baseImageUrl).text)
           ELSE Generating)

\* fileToPart, reader.onload: the read delivers a data URL, which is split
\* into its parts; the operation goes on to its generateContent call.
FileLoaded ==
    /\ pc = "reading"
    /\ \E read \in FileReadChoices :
           IF dataUrlToParts(read).kind = "thrown"
           THEN /\ pc' = "settled"
                /\ outcome' = Throw(dataUrlToParts(read).text)
                /\ UNCHANGED genCalls
           ELSE /\ pc' = "generating"
                /\ genCalls' = genCalls + 1
                /\ UNCHANGED outcome
    /\ UNCHANGED <<API_KEY, ai, call, apiResponse, prior>>
    /\ UNCHANGED <<responseVars, dataUrlVars, screenVars>>

\* fileToPart, reader.onerror.
FileFailed ==
    /\ pc = "reading"
    /\ pc' = "settled"
    /\ outcome' = ReaderRejection
    /\ UNCHANGED <<API_KEY, ai, call, apiResponse, genCalls, prior>>
    /\ UNCHANGED <<responseVars, dataUrlVars, screenVars>>

\* generateContent resolves and the operation returns handleApiResponse of it.
GenerateResolved ==
    /\ pc = "generating"
    /\ \E r \in ServiceResponses :
           /\ apiResponse' = Some(r)
           /\ outcome' = handleApiResponse(r)
    /\ pc' = "settled"
    /\ UNCHANGED <<API_KEY, ai, call, genCalls, prior>>
    /\ UNCHANGED <<responseVars, dataUrlVars, screenVars>>

\* generateContent rejects and the operation rejects with its error.
GenerateRejected ==
    /\ pc = "generating"
    /\ outcome' = Throw(ApiErrorMessage)
    /\ pc' = "settled"
    /\ UNCHANGED <<API_KEY, ai, call, apiResponse, genCalls, prior>>
    /\ UNCHANGED <<responseVars, dataUrlVars, screenVars>>

NextService ==
    \/ ModuleLoad
    \/ generateModelImage
    \/ \E url \in ServiceImageChoices : generateVirtualTryOnImage(url)
    \/ \E url \in ServiceImageChoices : generatePoseVariation(url)
    \/ \E url \in ServiceImageChoices, direction \in DirectionChoices :
           adjustBodyShape(url, direction)
    \/ FileLoaded
    \/ FileFailed
    \/ GenerateResolved
    \/ GenerateRejected

SpecService == InitService /\ [][NextService]_vars

---------------------------------------------------------------------------
(* SpecScreen: the start screen.  Each handler runs to its first await in  *)
(* one step, with the state the last render showed; a read and a service   *)
(* call settle in a later step, in any order.  A control can be used only  *)
(* while the render shows it.                                              *)

\* The files the user picks: file.type is what handleFileSelect looks at.
FileChoices == {[name |-> "photo", type |-> ImagePng],
                [name |-> "notes", type |-> TextPlain]}

ImageTypePrefix == <<"i", "m", "a", "g", "e", "/">>

\* What readAsDataURL delivers for a file.
ReadResult(file) == DataPrefix \o file.type \o Base64Marker \o PayloadA

\* The images the service resolves with.
ScreenResultChoices ==
    {DataPrefix \o ImagePng \o Base64Marker \o PayloadB,
     DataPrefix \o ImageJpeg \o Base64Marker \o PayloadB}

\* lib/utils getFriendlyErrorMessage(err, context): a message for the user,
\* here the context it is given.
getFriendlyErrorMessage(context) == context

PendingCalls == {k \in 1..Len(calls) : calls[k].status = "pending"}

\* The status the render shows for the given flags: the spinner while
\* isGenerating, else the error, else the generated model, else nothing.
StatusOf(generating, message, model) ==
    IF generating THEN "generating"
    ELSE IF IsDefined(message) THEN "error"
    ELSE IF IsDefined(model) THEN "success"
    ELSE "idle"

Status == StatusOf(isGenerating, error, generatedModelUrl)

\* What a handler leaves in lastEvent: its name, whether it issued a service
\* call, how many calls were unsettled and what the status was when it ran.
Event(handler, issued) ==
    Some([handler |-> handler, issued |-> issued,
          pendingBefore |-> Cardinality(PendingCalls),
          statusBefore |-> Status])

\* What issuedAt keeps for a call issued now: the two images on the screen.
Shown == [userImageUrl |-> userImageUrl,
          generatedModelUrl |-> generatedModelUrl, resetSince |-> FALSE]

\* The model stops counting user actions at MaxUserActions.
WithinActions == userActions < MaxUserActions

\* The list without its element i.
Without(s, i) == SubSeq(s, 1, i - 1) \o SubSeq(s, i + 1, Len(s))

\* The render's branches and conditions.
UploaderShown == ~IsDefined(userImageUrl)
TryAgainShown == IsDefined(userImageUrl) /\ IsDefined(error)
ControlsShown ==
    /\ IsDefined(userImageUrl)
    /\ IsDefined(generatedModelUrl)
    /\ ~isGenerating
    /\ ~IsDefined(error)

\* The model stops issuing once MaxScreenCalls calls are issued or promised.
WithinCalls == Len(calls) + Len(readers) < MaxScreenCalls

InitScreen ==
    /\ userImageUrl = Undefined
    /\ generatedModelUrl = Undefined
    /\ isGenerating = FALSE
    /\ isAdjusting = FALSE
    /\ error = Undefined
    /\ readers = <<>>
    /\ calls = <<>>
    /\ issuedAt = <<>>
    /\ userActions = 0
    /\ awaitingAction = FALSE
    /\ lastEvent = Undefined
    /\ ResponseIdle /\ DataUrlIdle /\ ServiceIdle

\* The file input's onChange: the input is part of the uploader.
handleFileSelect(file) ==
    /\ UploaderShown
    /\ WithinActions
    /\ userActions' = userActions + 1
    /\ awaitingAction' = FALSE
    /\ IF ~StartsWith(file.type, ImageTypePrefix)
       THEN /\ error' = Some("Please select an image file.")
            /\ UNCHANGED readers
       ELSE /\ WithinCalls
            /\ Len(readers) < MaxReaders
            /\ readers' = Append(readers, file)
            /\ UNCHANGED error
    /\ lastEvent' = Event("handleFileSelect", FALSE)
    /\ UNCHANGED <<userImageUrl, generatedModelUrl, isGenerating, isAdjusting,
                   calls, issuedAt>>
    /\ UNCHANGED <<responseVars, dataUrlVars, serviceVars>>

\* reader.onload up to its await: the photo is shown and generateModelImage
\* is called.
ReaderLoaded(i) ==
    /\ i \in 1..Len(readers)
    /\ userImageUrl' = Some(ReadResult(readers[i]))
    /\ isGenerating' = TRUE
    /\ generatedModelUrl' = Undefined
    /\ error' = Undefined
    /\ calls' = Append(calls, [op |-> "generateModelImage",
                               direction |-> Undefined, status |-> "pending"])
    /\ issuedAt' = Append(issuedAt, Shown)
    /\ readers' = Without(readers, i)
    /\ lastEvent' = Event("onload", TRUE)
    /\ UNCHANGED <<isAdjusting, userActions,
                   awaitingAction>>
    /\ UNCHANGED <<responseVars, dataUrlVars, serviceVars>>

\* The read fails: the reader has no onerror handler, nothing happens.
ReaderFailed(i) ==
    /\ i \in 1..Len(readers)
    /\ readers' = Without(readers, i)
    /\ lastEvent' = Event("onerror", FALSE)
    /\ UNCHANGED <<userImageUrl, generatedModelUrl, isGenerating, isAdjusting,
                   error, calls, issuedAt, userActions,
                   awaitingAction>>
    /\ UNCHANGED <<responseVars, dataUrlVars, serviceVars>>

Settle(k, status) == [calls EXCEPT ![k].status = status]

\* onload after its await: generateModelImage resolved.
ModelImageResolved(k, image) ==
    /\ k \in PendingCalls
    /\ calls[k].op = "generateModelImage"
    /\ generatedModelUrl' = Some(image)
    /\ isGenerating' = FALSE
    /\ calls' = Settle(k, "resolved")
    /\ lastEvent' = Event("onload resolved", FALSE)
    /\ UNCHANGED <<userImageUrl, isAdjusting, error, readers, issuedAt, userActions,
                   awaitingAction>>
    /\ UNCHANGED <<responseVars, dataUrlVars, serviceVars>>

\* onload after its await: generateModelImage rejected.
ModelImageRejected(k) ==
    /\ k \in PendingCalls
    /\ calls[k].op = "generateModelImage"
    /\ error' = Some(getFriendlyErrorMessage("Failed to create model"))
    /\ userImageUrl' = Undefined
    /\ isGenerating' = FALSE
    /\ calls' = Settle(k, "rejected")
    /\ awaitingAction' = TRUE
    /\ UNCHANGED userActions
    /\ lastEvent' = Event("onload rejected", FALSE)
    /\ UNCHANGED <<generatedModelUrl, isAdjusting, readers, issuedAt>>
    /\ UNCHANGED <<responseVars, dataUrlVars, serviceVars>>

\* reset without setError(null).
reset_KeepsError ==
    /\ TryAgainShown \/ ControlsShown
    /\ userImageUrl' = Undefined
    /\ generatedModelUrl' = Undefined
    /\ isGenerating' = FALSE
    /\ isAdjusting' = FALSE
    /\ issuedAt' = [k \in 1..Len(issuedAt) |->
                       IF k \in PendingCalls
                       THEN [issuedAt[k] EXCEPT !.resetSince = TRUE]
                       ELSE issuedAt[k]]
    /\ lastEvent' = Event("reset", FALSE)
    /\ UNCHANGED <<error, readers, calls, userActions,
                   awaitingAction>>
    /\ UNCHANGED <<responseVars, dataUrlVars, serviceVars>>

\* "Try Again" and "Use Different Photo".
reset ==
    /\ TryAgainShown \/ ControlsShown
    /\ userImageUrl' = Undefined
    /\ generatedModelUrl' = Undefined
    /\ isGenerating' = FALSE
    /\ error' = Undefined
    /\ isAdjusting' = FALSE
    /\ issuedAt' = [k \in 1..Len(issuedAt) |->
                       IF k \in PendingCalls
                       THEN [issuedAt[k] EXCEPT !.resetSince = TRUE]
                       ELSE issuedAt[k]]
    /\ lastEvent' = Event("reset", FALSE)
    /\ UNCHANGED <<readers, calls, userActions,
                   awaitingAction>>
    /\ UNCHANGED <<responseVars, dataUrlVars, serviceVars>>

\* A click on "Less Sixpack" or "More Sixpack": the panel is part of the
\* controls, and its buttons are disabled while isAdjusting.
handleBodyAdjustment(direction) ==
    /\ ControlsShown
    /\ WithinActions
    /\ userActions' = userActions + 1
    /\ awaitingAction' = FALSE
    /\ IF ~IsDefined(generatedModelUrl) \/ isGenerating \/ isAdjusting
       THEN /\ lastEvent' = Event("handleBodyAdjustment", FALSE)
            /\ UNCHANGED <<error, isAdjusting, calls, issuedAt>>
       ELSE /\ WithinCalls
            /\ error' = Undefined
            /\ isAdjusting' = TRUE
            /\ calls' = Append(calls, [op |-> "adjustBodyShape",
                                       direction |-> Some(direction),
                                       status |-> "pending"])
            /\ issuedAt' = Append(issuedAt, Shown)
            /\ lastEvent' = Event("handleBodyAdjustment", TRUE)
    /\ UNCHANGED <<userImageUrl, generatedModelUrl, isGenerating, readers>>
    /\ UNCHANGED <<responseVars, dataUrlVars, serviceVars>>

\* handleBodyAdjustment after its await, dropping the result of a call that a
\* reset has passed over.
AdjustmentResolved_DiscardsStray(k, image) ==
    /\ k \in PendingCalls
    /\ calls[k].op = "adjustBodyShape"
    /\ IF issuedAt[k].resetSince
       THEN UNCHANGED <<generatedModelUrl, isAdjusting>>
       ELSE /\ generatedModelUrl' = Some(image)
            /\ isAdjusting' = FALSE
    /\ calls' = Settle(k, "resolved")
    /\ lastEvent' = Event("handleBodyAdjustment resolved", FALSE)
    /\ UNCHANGED <<userImageUrl, isGenerating, error, readers, issuedAt, userActions,
                   awaitingAction>>
    /\ UNCHANGED <<responseVars, dataUrlVars, serviceVars>>

\* handleBodyAdjustment after its await: adjustBodyShape resolved.
AdjustmentResolved(k, image) ==
    /\ k \in PendingCalls
    /\ calls[k].op = "adjustBodyShape"
    /\ generatedModelUrl' = Some(image)
    /\ isAdjusting' = FALSE
    /\ calls' = Settle(k, "resolved")
    /\ lastEvent' = Event("handleBodyAdjustment resolved", FALSE)
    /\ UNCHANGED <<userImageUrl, isGenerating, error, readers, issuedAt, userActions,
                   awaitingAction>>
    /\ UNCHANGED <<responseVars, dataUrlVars, serviceVars>>

\* handleBodyAdjustment after its await: adjustBodyShape rejected.
AdjustmentRejected(k) ==
    /\ k \in PendingCalls
    /\ calls[k].op = "adjustBodyShape"
    /\ error' = Some(getFriendlyErrorMessage("Failed to adjust body shape"))
    /\ isAdjusting' = FALSE
    /\ calls' = Settle(k, "rejected")
    /\ awaitingAction' = TRUE
    /\ UNCHANGED userActions
    /\ lastEvent' = Event("handleBodyAdjustment rejected", FALSE)
    /\ UNCHANGED <<userImageUrl, generatedModelUrl, isGenerating, readers, issuedAt>>
    /\ UNCHANGED <<responseVars, dataUrlVars, serviceVars>>

NextScreen ==
    \/ \E file \in FileChoices : handleFileSelect(file)
    \/ \E i \in 1..MaxReaders : ReaderLoaded(i)
    \/ \E i \in 1..MaxReaders : ReaderFailed(i)
    \/ \E k \in 1..MaxScreenCalls, image \in ScreenResultChoices :
           ModelImageResolved(k, image)
    \/ \E k \in 1..MaxScreenCalls : ModelImageRejected(k)
    \/ reset
    \/ \E direction \in DirectionChoices : handleBodyAdjustment(direction)
    \/ \E k \in 1..MaxScreenCalls, image \in ScreenResultChoices :
           AdjustmentResolved(k, image)
    \/ \E k \in 1..MaxScreenCalls : AdjustmentRejected(k)

SpecScreen == InitScreen /\ [][NextScreen]_vars

---------------------------------------------------------------------------
(* Properties of handleApiResponse (SpecResponse).                         *)

\* The parts of candidate i of response r, none when it has no content.
PartsAt(r, i) ==
    LET c == CandidatesOf(r)[i]
    IN  IF IsDefined(c.content) /\ IsDefined(Get(c.content).parts)
        THEN Get(Get(c.content).parts) ELSE <<>>

\* Part j of candidate i of r carries inline image data.
ImageAt(r, i, j) ==
    /\ i \in 1..Len(CandidatesOf(r))
    /\ j \in 1..Len(PartsAt(r, i))
    /\ IsDefined(PartsAt(r, i)[j].inlineData)

\* The positions a part can have in a candidate's parts list.
PartIndexes == UNION {1..Len(ps) : ps \in PartsChoices}

ImagePositions(r) ==
    {p \in (1..MaxCandidates) \X PartIndexes : ImageAt(r, p[1], p[2])}

HasImage(r) == ImagePositions(r) # {}

\* The first image: first candidate in list order, first part within it.
IsFirstImage(r, p) ==
    /\ p \in ImagePositions(r)
    /\ \A q \in ImagePositions(r) :
           p[1] < q[1] \/ (p[1] = q[1] /\ p[2] <= q[2])

\* The data URL built from the image at position p of r.
DataUrlOfImage(r, p) ==
    LET inlineData == Get(PartsAt(r, p[1])[p[2]].inlineData)
    IN  DataPrefix \o TemplateText(inlineData.mimeType) \o Base64Marker
            \o TemplateText(inlineData.data)

\* The prompt feedback of r has a block reason set.
HasBlockReason(r) ==
    /\ IsDefined(r.promptFeedback)
    /\ IsDefined(Get(r.promptFeedback).blockReason)
    /\ Get(Get(r.promptFeedback).blockReason) # <<>>

BlockReasonOf(r) == Get(Get(r.promptFeedback).blockReason)

\* Candidate i of r has a finish reason other than "STOP".
InterruptedAt(r, i) ==
    /\ i \in 1..Len(CandidatesOf(r))
    /\ IsDefined(CandidatesOf(r)[i].finishReason)
    /\ CandidatesOf(r)[i].finishReason \notin {Some(<<>>), Some(STOP)}

Handled == IsDefined(response) /\ result # NotRun

\* C1 as stated: every response in which some candidate has an inline image
\* part yields the data URL built from the first such part, and no error.
C1_ImageAlwaysReturned ==
    Handled /\ HasImage(Get(response)) =>
        \E p \in ImagePositions(Get(response)) :
            /\ IsFirstImage(Get(response), p)
            /\ result = Return(DataUrlOfImage(Get(response), p))

\* C1, amended: every response without a block reason in which some candidate
\* has an inline image part yields the data URL data:<mimeType>;base64,<data>
\* built from the first such part (first candidate in list order that has
\* one, first inline-data part within it), and no error is raised.
C1_UnblockedImageReturned ==
    Handled /\ ~HasBlockReason(Get(response)) /\ HasImage(Get(response)) =>
        \E p \in ImagePositions(Get(response)) :
            /\ IsFirstImage(Get(response), p)
            /\ result = Return(DataUrlOfImage(Get(response), p))

\* C1 witness: the first candidate has no image, the second has two image
\* parts, and the data URL of the first of the two was returned.
C1_Witness ==
    /\ Handled
    /\ ~HasBlockReason(Get(response))
    /\ Len(CandidatesOf(Get(response))) = 2
    /\ PartsAt(Get(response), 1) = <<Words>>
    /\ PartsAt(Get(response), 2) = <<PngA, JpegB>>
    /\ result = Return(DataPrefix \o ImagePng \o Base64Marker \o PayloadA)

\* C2: a response whose prompt feedback has a block reason fails with the
\* blocked-content error, whose message carries that reason, whatever its
\* candidates contain; no data URL is returned.
C2_BlockedAlwaysFails ==
    Handled /\ HasBlockReason(Get(response)) =>
        /\ result.kind = "thrown"
        /\ StartsWith(result.text, BlockedPrefix \o BlockReasonOf(Get(response)))

\* C2 witness: a blocked response with an inline image part was rejected.
C2_Witness ==
    /\ Handled
    /\ HasBlockReason(Get(response))
    /\ HasImage(Get(response))
    /\ result.kind = "thrown"

\* C3 as stated: a response without a block reason and without an inline
\* image part, in which some candidate (at any position) has a finish reason
\* other than "STOP", fails with the generation-interrupted error naming such
\* a finish reason, never with the no-image-returned error.
C3_AnyInterruptionReported ==
    \A i \in 1..MaxCandidates :
        (/\ Handled
         /\ ~HasBlockReason(Get(response))
         /\ ~HasImage(Get(response))
         /\ InterruptedAt(Get(response), i)) =>
            /\ result.kind = "thrown"
            /\ \E j \in 1..MaxCandidates :
                   /\ InterruptedAt(Get(response), j)
                   /\ result.text = InterruptedPrefix
                        \o Get(CandidatesOf(Get(response))[j].finishReason)
                        \o InterruptedSuffix

\* The case C4 is about: no block reason, no inline image part, the finish
\* reason of the first candidate is "STOP", and text feedback is present.
TextOnlyStop(r) ==
    /\ ~HasBlockReason(r)
    /\ ~HasImage(r)
    /\ Len(CandidatesOf(r)) >= 1
    /\ CandidatesOf(r)[1].finishReason = Some(STOP)
    /\ IsDefined(r.text)

\* C4 as stated: with text feedback X, padded or not, the no-image-returned
\* error's message contains X as a substring.
C4_TextFeedbackVerbatim ==
    Handled /\ TextOnlyStop(Get(response)) =>
        /\ result.kind = "thrown"
        /\ StartsWith(result.text, NoImagePrefix)
        /\ Contains(result.text, Get(Get(response).text))

\* C4, amended: with text feedback X the service fails with the
\* no-image-returned error and the message contains X with its leading and
\* trailing white space removed (quoted, when anything is left of it).
C4_TextFeedbackTrimmed ==
    Handled /\ TextOnlyStop(Get(response)) =>
        LET x == Get(Get(response).text)
            kept == SubSeq(x,
                       CHOOSE i \in 1..(Len(x) + 1) :
                           /\ \A k \in 1..(i - 1) : x[k] \in WhiteSpace
                           /\ i <= Len(x) => x[i] \notin WhiteSpace,
                       CHOOSE j \in 0..Len(x) :
                           /\ \A k \in (j + 1)..Len(x) : x[k] \in WhiteSpace
                           /\ j >= 1 => x[j] \notin WhiteSpace)
        IN  /\ result.kind = "thrown"
            /\ StartsWith(result.text, NoImagePrefix)
            /\ Contains(result.text, kept)
            /\ kept # <<>> =>
                   Contains(result.text, <<"\"">> \o kept \o <<"\"">>)

\* C4 witness: padded text feedback was reported without its padding.
C4_Witness ==
    /\ Handled
    /\ TextOnlyStop(Get(response))
    /\ Get(response).text = Some(<<" ", "h", "i", "\n">>)
    /\ result = Throw(NoImagePrefix \o TextFeedbackPrefix \o <<"h", "i">>
                        \o TextFeedbackSuffix)

---------------------------------------------------------------------------
(* Properties of dataUrlToParts (SpecDataUrl).                             *)

(* The form data:<mime>;base64,<payload> of the data model, read off a     *)
(* string without the parser.                                              *)

Letters ==
    {"a","b","c","d","e","f","g","h","i","j","k","l","m","n","o","p","q",
     "r","s","t","u","v","w","x","y","z","A","B","C","D","E","F","G","H",
     "I","J","K","L","M","N","O","P","Q","R","S","T","U","V","W","X","Y","Z"}
Digits == {"0","1","2","3","4","5","6","7","8","9"}
\* The base64 alphabet with its padding character.
Base64Chars == Letters \cup Digits \cup {"+", "/", "="}
\* The characters of a MIME type: type "/" subtype, each a token.
MimeChars == Letters \cup Digits \cup {"/", "-", "+", "."}
\* The characters of the header's parameters: ";attribute=value" groups.
ParamChars == MimeChars \cup {";", "="}

\* The MIME type of a string that starts "data:": the longest run of MIME
\* characters after the prefix.
MimeOf(s) ==
    LET from == Len(DataPrefix) + 1
        stop == {i \in from..Len(s) : s[i] \notin MimeChars} \cup {Len(s) + 1}
    IN  SubSeq(s, from, (CHOOSE i \in stop : \A j \in stop : i <= j) - 1)

\* The payload of a data URL: the longest run of base64 characters at its end.
PayloadOf(s) ==
    LET stop == {i \in 1..Len(s) : s[i] \notin Base64Chars} \cup {0}
    IN  SubSeq(s, (CHOOSE i \in stop : \A j \in stop : j <= i) + 1, Len(s))

\* s has the form data:<mime>[;<parameter>...];base64,<payload>, with a
\* non-empty MIME type and a base64 payload.
IsDataUrl(s) ==
    /\ StartsWith(s, DataPrefix)
    /\ MimeOf(s) # <<>>
    /\ LET afterMime == Len(DataPrefix) + Len(MimeOf(s)) + 1
           payloadAt == Len(s) - Len(PayloadOf(s)) + 1
           markerAt  == payloadAt - Len(Base64Marker)
       IN  /\ markerAt >= afterMime
           /\ SubSeq(s, markerAt, payloadAt - 1) = Base64Marker
           /\ \A i \in afterMime..(markerAt - 1) : s[i] \in ParamChars

\* C5: a data URL data:<mime>[;<parameters>];base64,<payload> is decoded to
\* its MIME type and payload, and the data URL rebuilt from the decoded pair
\* is a data URL with the identical MIME type and the identical payload.
C5_RoundTrip ==
    IsDataUrl(dataUrl) =>
        /\ decoded # NotDecoded =>
               /\ decoded.kind = "parts"
               /\ decoded.mimeType = MimeOf(dataUrl)
               /\ decoded.data = PayloadOf(dataUrl)
        /\ IsDefined(reencoded) =>
               /\ IsDataUrl(Get(reencoded))
               /\ MimeOf(Get(reencoded)) = MimeOf(dataUrl)
               /\ PayloadOf(Get(reencoded)) = PayloadOf(dataUrl)

\* C5 witness: a data URL with a header parameter and a non-empty payload
\* was decoded and encoded again.
C5_Witness ==
    /\ IsDataUrl(dataUrl)
    /\ Contains(dataUrl, CharsetParam)
    /\ PayloadOf(dataUrl) = PayloadA
    /\ IsDefined(reencoded)

---------------------------------------------------------------------------
(* Properties of the service's operations (SpecService).                   *)

\* The API credential is absent (or empty, which the module treats alike).
CredentialAbsent == API_KEY = Undefined \/ API_KEY = Some(<<>>)

\* The messages of the errors that reject an operation for its input or for
\* the missing client, before anything is generated.
ValidationMessages == {NotInitializedMessage} \cup MalformedMessages

\* The operation the record c describes was rejected with the
\* initialization error before any generateContent call.
RejectedUninitialized(c) ==
    /\ c.outcome = Throw(NotInitializedMessage)
    /\ c.genCalls = 0

\* The operation in progress, in the shape `prior` remembers one.
Current == [call |-> Get(call), outcome |-> outcome, genCalls |-> genCalls]

\* C6: with the credential absent the module's load completes, the client
\* stays null, and every call of the four operations, whatever its input, is
\* rejected with the initialization error in its first step: no read is
\* started, no input conversion decides the outcome, and no generateContent
\* call is issued.
C6_UninitializedRejectsAll ==
    CredentialAbsent =>
        /\ pc = "unloaded" => ENABLED ModuleLoad
        /\ pc # "unloaded" => ai = Undefined
        /\ IsDefined(call) => pc = "settled" /\ RejectedUninitialized(Current)
        /\ IsDefined(prior.last) => RejectedUninitialized(Get(prior.last))

\* C6 witness: without a credential, adjustBodyShape was called on a string
\* that is no data URL and was rejected with the initialization error, after
\* an earlier call had been rejected too.
C6_Witness ==
    /\ API_KEY = Undefined
    /\ IsDefined(call)
    /\ Get(call).op = "adjustBodyShape"
    /\ Get(call).image = Some(<<>>)
    /\ outcome = Throw(NotInitializedMessage)
    /\ prior.settled >= 1

\* C7 as stated: with the client initialized, an operation that takes its
\* image as a string is rejected with a malformed-input error, and issues no
\* generateContent call, when the string is not of the form
\* data:<mime>;base64,<payload>; and raises no malformed-input error when it is.
C7_MalformedIffNotDataUrl ==
    (IsDefined(ai) /\ IsDefined(call) /\ IsDefined(Get(call).image)) =>
        LET url == Get(Get(call).image)
            malformed == outcome.kind = "thrown"
                            /\ outcome.text \in MalformedMessages
        IN  /\ ~IsDataUrl(url) => pc = "settled" /\ malformed /\ genCalls = 0
            /\ IsDataUrl(url) => ~malformed

\* adjustBodyShape on a data URL, with the client initialized, described by c:
\* no validation error, and exactly one generateContent call.
AcceptedOnce(c) ==
    /\ c.genCalls = 1
    /\ ~(c.outcome.kind = "thrown" /\ c.outcome.text \in ValidationMessages)

AdjustsDataUrl(c) ==
    /\ c.call.op = "adjustBodyShape"
    /\ IsDataUrl(Get(c.call.image))

\* C8: with the client initialized, every adjustBodyShape call on a data URL,
\* in either direction and after any earlier operations with any outcomes,
\* raises no validation error and issues exactly one generateContent call.
C8_BothDirectionsAccepted ==
    IsDefined(ai) =>
        /\ (IsDefined(call) /\ AdjustsDataUrl(Current)) =>
               pc \in {"generating", "settled"} /\ AcceptedOnce(Current)
        /\ (IsDefined(prior.last) /\ AdjustsDataUrl(Get(prior.last))) =>
               AcceptedOnce(Get(prior.last))

\* C8 witness: "more" then "less" on the same data URL, after an earlier
\* operation; the first of the two failed for another reason, both issued one
\* generateContent call.
C8_Witness ==
    /\ IsDefined(ai)
    /\ prior.settled = 2
    /\ IsDefined(call)
    /\ AdjustsDataUrl(Current)
    /\ AdjustsDataUrl(Get(prior.last))
    /\ Get(prior.last).call.image = Get(call).image
    /\ Get(prior.last).call.direction = Some("more")
    /\ Get(call).direction = Some("less")
    /\ Get(prior.last).outcome.kind = "thrown"
    /\ pc = "settled"
    /\ outcome.kind = "returned"
    /\ genCalls = 1

---------------------------------------------------------------------------
(* Properties of the start screen (SpecScreen).                            *)

PendingOf(op) == {k \in PendingCalls : calls[k].op = op}

\* C9 as stated: at most one adjustBodyShape call is outstanding, and an
\* adjustment click made while one is outstanding issues no call.
C9_AdjustmentsSerialized ==
    /\ Cardinality(PendingOf("adjustBodyShape")) <= 1
    /\ \A e \in lastEvent :
           (e.handler = "handleBodyAdjustment" /\ e.issued) =>
               PendingOf("adjustBodyShape") = {Len(calls)}

\* C10 as stated: at most one service call of the screen is outstanding, and
\* a handler that runs while a call is outstanding issues no call.
C10_OneCallOutstanding ==
    /\ Cardinality(PendingCalls) <= 1
    /\ \A e \in lastEvent : e.issued => e.pendingBefore = 0

Statuses == {"idle", "generating", "success", "error"}

\* The transitions of the linear machine idle -> generating ->
\* (success | error), with error resettable to idle.
LinearTransitions ==
    {<<"idle", "generating">>, <<"generating", "success">>,
     <<"generating", "error">>, <<"error", "idle">>}

\* Every change of status but the one from error straight to success.
StatusTransitions == {t \in Statuses \X Statuses : t[1] # t[2]}
                         \ {<<"error", "success">>}

\* The screen as reset leaves it.
Cleared ==
    /\ ~IsDefined(userImageUrl) /\ ~IsDefined(generatedModelUrl)
    /\ ~IsDefined(error) /\ ~isGenerating /\ ~isAdjusting

\* C11 as stated: the status changes only along idle -> generating,
\* generating -> success, generating -> error and error -> idle, and in every
\* error state a reset is available, which leaves the screen cleared.
C11_LinearStatus ==
    /\ \A e \in lastEvent :
           e.statusBefore # Status =>
               <<e.statusBefore, Status>> \in LinearTransitions
    /\ Status = "error" => ENABLED reset
    /\ \A e \in lastEvent : e.handler = "reset" => Cleared

\* C11, amended: the status never changes from error straight to success
\* (every other change of status is possible); in an error state a reset is
\* available exactly when a user image is set; and every reset leaves the
\* screen idle with no user image, no generated image, no error and both
\* loading flags false.
C11_StatusTransitions ==
    /\ \A e \in lastEvent :
           e.statusBefore # Status =>
               <<e.statusBefore, Status>> \in StatusTransitions
    /\ Status = "error" => (ENABLED reset <=> IsDefined(userImageUrl))
    /\ \A e \in lastEvent :
           e.handler = "reset" => (Cleared /\ Status = "idle")

\* "Try Again" was clicked in an error state and the screen is idle.
C11_Witness ==
    /\ \E e \in lastEvent : e.handler = "reset" /\ e.statusBefore = "error"
    /\ Cleared
    /\ Status = "idle"

\* The adjustBodyShape calls still pending that a reset has passed over.
StrayAdjustments ==
    {k \in PendingOf("adjustBodyShape") : issuedAt[k].resetSince}

\* C12: a reset leaves every pending adjustBodyShape call pending and able
\* to settle; and when a call that a reset has passed over settles, its
\* outcome is applied to the screen as it is then: a resolution puts its
\* image in generatedModelUrl, a rejection sets the error message, and
\* either clears isAdjusting.
C12_StrayResponseApplied ==
    [][/\ \A k \in PendingOf("adjustBodyShape") :
              (\E e \in lastEvent' : e.handler = "reset") =>
                  /\ calls' = calls
                  /\ issuedAt'[k].resetSince
                  /\ (ENABLED AdjustmentRejected(k))'
                  /\ \A image \in ScreenResultChoices :
                         (ENABLED AdjustmentResolved(k, image))'
       /\ \A k \in StrayAdjustments :
              /\ calls'[k].status = "resolved" =>
                     /\ generatedModelUrl' \in
                            {Some(image) : image \in ScreenResultChoices}
                     /\ ~isAdjusting'
                     /\ UNCHANGED <<userImageUrl, isGenerating, error>>
              /\ calls'[k].status = "rejected" =>
                     /\ error' = Some(getFriendlyErrorMessage(
                                          "Failed to adjust body shape"))
                     /\ ~isAdjusting'
                     /\ UNCHANGED <<userImageUrl, isGenerating,
                                    generatedModelUrl>>]_vars

\* An adjustment that a reset passed over has just resolved: the screen holds
\* its image while a newer generation is in flight.
C12_Witness ==
    /\ \E e \in lastEvent : e.handler = "handleBodyAdjustment resolved"
    /\ \E k \in 1..Len(calls) :
           /\ calls[k].op = "adjustBodyShape"
           /\ calls[k].status = "resolved"
           /\ issuedAt[k].resetSince
    /\ IsDefined(generatedModelUrl)
    /\ isGenerating
    /\ PendingOf("generateModelImage") # {}

\* The other two states C12 names: a generated image, or an error, with no
\* user image, left by an adjustment that settled after a reset.
C12_ImageWithoutUserImage ==
    /\ \E e \in lastEvent : e.handler = "handleBodyAdjustment resolved"
    /\ IsDefined(generatedModelUrl)
    /\ ~IsDefined(userImageUrl)

C12_ErrorWithoutUserImage ==
    /\ \E e \in lastEvent : e.handler = "handleBodyAdjustment rejected"
    /\ IsDefined(error)
    /\ ~IsDefined(userImageUrl)

\* The calls of one operation that reject in the step.
RejectingNow(op) == {k \in PendingOf(op) : calls'[k].status = "rejected"}

\* A rejection sets the error message and clears the loading flag of its
\* operation.
RejectionSurfaces ==
    /\ RejectingNow("generateModelImage") # {} =>
           IsDefined(error') /\ ~isGenerating'
    /\ RejectingNow("adjustBodyShape") # {} =>
           IsDefined(error') /\ ~isAdjusting'

\* C13 as stated: a rejection sets the error message and clears the loading
\* flag of its operation; after a rejection no service call is issued before
\* the next photo selection or adjustment click; and the calls issued never
\* outnumber those user actions.
C13_NoCallWithoutNewAction ==
    [][/\ RejectionSurfaces
       /\ (awaitingAction /\ userActions' = userActions) =>
              Len(calls') = Len(calls)
       /\ Len(calls') <= userActions']_vars

\* The parts of C13 that hold: what a rejection does to the screen, that the
\* rejection itself issues no call, and the count.
C13_RejectionIssuesNoCall ==
    [][/\ RejectionSurfaces
       /\ (RejectingNow("generateModelImage") # {}
              \/ RejectingNow("adjustBodyShape") # {}) =>
              Len(calls') = Len(calls) /\ readers' = readers
       /\ Len(calls') + Len(readers') <= userActions']_vars

\* The step of a rejecting adjustBodyShape call changes the error message and
\* isAdjusting only; the step of a rejecting generateModelImage call clears
\* the user image.
RejectionFrame ==
    /\ RejectingNow("adjustBodyShape") # {} =>
           /\ UNCHANGED <<userImageUrl, generatedModelUrl, isGenerating>>
           /\ IsDefined(error') /\ ~isAdjusting'
    /\ RejectingNow("generateModelImage") # {} =>
           /\ ~IsDefined(userImageUrl')
           /\ UNCHANGED <<generatedModelUrl, isAdjusting>>

\* C14 as stated: when an adjustBodyShape call rejects and no reset came
\* after its click, the user image and the generated image are the ones the
\* screen showed at the click, and the rejection changes the error message
\* and isAdjusting only; a rejecting generateModelImage call clears the user
\* image.
C14_FailedAdjustmentKeepsImages ==
    [][/\ RejectionFrame
       /\ \A k \in RejectingNow("adjustBodyShape") :
              ~issuedAt[k].resetSince =>
                  /\ userImageUrl' = issuedAt[k].userImageUrl
                  /\ generatedModelUrl' = issuedAt[k].generatedModelUrl]_vars

\* The part of C14 that holds: what the rejecting step itself changes.
C14_RejectionStepFrame == [][RejectionFrame]_vars

=============================================================================
